---- MODULE Spec2Model ----
(***************************************************************************)
(* Model of src/src/cython_image_processing/image_filters.pyx: the four    *)
(* pixel transforms gaussian_blur, sharpen_filter, edge_detection and      *)
(* adjust_brightness on (height, width, channels) arrays of uint8.         *)
(*                                                                         *)
(* A call is unrolled into its program: the bodies of the (y, x) loop in   *)
(* row-major order, followed by the border copy statements.  Spec runs the *)
(* program in source order; SpecPar runs the same bodies in any order.     *)
(*                                                                         *)
(* A C double is modelled exactly: every value the code computes is a      *)
(* dyadic rational num/den (or the square root of an integer), which a     *)
(* double holds without rounding at these magnitudes.  The factor of       *)
(* adjust_brightness ranges over finite doubles only.                      *)
(***************************************************************************)
EXTENDS Integers, Sequences, FiniteSets, TLC

\* ---------------------------------------------------------------- bounds
MaxHeight == 3
MaxWidth == 4
MaxSpots == 1
MaxParTasks == 6

\* ------------------------------------------------------ program constants
\* ctypedef cnp.uint8_t DTYPE_t: the largest element value.
MaxByte == 255
\* "shape (height, width, 3)": image.shape[2] of an RGB image.
Channels == 3

Byte == 0..MaxByte

\* ----------------------------------------------------------------- arrays
\* A numpy uint8 array of ndim 3: its shape and its elements.
Indices(h, w, ch) == (0..(h - 1)) \X (0..(w - 1)) \X (0..(ch - 1))

Array(h, w, ch, f) == [h |-> h, w |-> w, ch |-> ch, px |-> f]

InBounds(a, i) == i \in Indices(a.h, a.w, a.ch)

SameShape(a, b) == a.h = b.h /\ a.w = b.w /\ a.ch = b.ch

\* np.zeros_like(image): same shape and dtype, every element 0.
ZerosLike(a) == Array(a.h, a.w, a.ch, [i \in Indices(a.h, a.w, a.ch) |-> 0])

\* The output of a call: a fresh buffer "out" beside the caller's "in".
AllocateAlias(hp) == [ref |-> "in", heap |-> hp]

Allocate(hp) == [ref |-> "out", heap |-> ("out" :> ZerosLike(hp["in"])) @@ hp]

\* ------------------------------------------------------------ input images
\* The inputs: a background colour with at most MaxSpots pixels of a
\* foreground colour, in one of these palettes (bg and fg per channel).
Palettes ==
  << [bg |-> <<0, 100, 200>>,   fg |-> <<255, 120, 60>>],
     [bg |-> <<255, 120, 60>>,  fg |-> <<0, 100, 200>>],
     [bg |-> <<200, 200, 200>>, fg |-> <<100, 100, 100>>],
     [bg |-> <<100, 100, 100>>, fg |-> <<200, 200, 200>>] >>

RECURSIVE SpotSets(_, _)
SpotSets(P, k) ==
  IF k = 0 THEN {{}}
  ELSE LET S == SpotSets(P, k - 1) IN S \cup {s \cup {p} : s \in S, p \in P}

MakeImage(h, w, spots, pal) ==
  Array(h, w, Channels,
        [i \in Indices(h, w, Channels) |->
           IF <<i[1], i[2]>> \in spots THEN pal.fg[i[3] + 1] ELSE pal.bg[i[3] + 1]])

ImagesOf(pals) ==
  UNION {{MakeImage(h, w, s, Palettes[p]) :
            s \in SpotSets((0..(h - 1)) \X (0..(w - 1)), MaxSpots),
            p \in pals} :
         h \in 0..MaxHeight, w \in 0..MaxWidth}

Images == ImagesOf(1..Len(Palettes))

\* The inputs whose programs are run in every order: the first palette only.
ParImages == ImagesOf({1})

\* The factors of adjust_brightness, each an exact double num/den.
Factors ==
  { [num |-> -1, den |-> 1], [num |-> 0, den |-> 1], [num |-> 1, den |-> 2],
    [num |-> 1, den |-> 1],  [num |-> 3, den |-> 2], [num |-> 2, den |-> 1] }

NoFactor == [num |-> 1, den |-> 1]

ParFactors == {[num |-> 1, den |-> 2], [num |-> 3, den |-> 2]}

\* ---------------------------------------------------------------- kernels
\* kernel[ky][kx] as w[ky + 1][kx + 1] / den.
GaussKernel == [w |-> << <<1, 2, 1>>, <<2, 4, 2>>, <<1, 2, 1>> >>, den |-> 16]

SharpenKernel == [w |-> << <<0, -1, 0>>, <<-1, 5, -1>>, <<0, -1, 0>> >>, den |-> 1]

SobelX == [w |-> << <<-1, 0, 1>>, <<-2, 0, 2>>, <<-1, 0, 1>> >>, den |-> 1]

SobelY == [w |-> << <<-1, -2, -1>>, <<0, 0, 0>>, <<1, 2, 1>> >>, den |-> 1]

\* ------------------------------------------------------------- arithmetic
\* The integral part of num/den (den > 0), discarding the fraction.
TruncDiv(num, den) == IF num >= 0 THEN num \div den ELSE -((-num) \div den)

\* <DTYPE_t>v for the double v = num/den: the fraction is discarded.  An
\* integral part outside 0..255 is not representable in DTYPE_t; the compiled
\* conversion goes through a wider integer and keeps its low eight bits.
CastRounding(num, den) == ((2 * num + den) \div (2 * den)) % (MaxByte + 1)

Cast(num, den) == TruncDiv(num, den) % (MaxByte + 1)

\* floor(sqrt(n)) for n >= 0: <DTYPE_t>sqrt(n), sqrt being correctly rounded.
ISqrt(n) == CHOOSE r \in 0..(6 * MaxByte) : r * r <= n /\ n < (r + 1) * (r + 1)

\* ------------------------------------------------- the convolution loops
ConvOps == {"blur", "sharpen", "edge"}

\* range(lo, hi) of Python: its length.
RangeLen(lo, hi) == IF hi > lo THEN hi - lo ELSE 0

\* for y in range(ylo, yhi): for x in range(xlo, xhi): the bodies in order.
LoopNest(ylo, yhi, xlo, xhi) ==
  LET ny == RangeLen(ylo, yhi)
      nx == RangeLen(xlo, xhi)
  IN  [i \in 1..(ny * nx) |->
         [kind |-> "pixel", y |-> ylo + ((i - 1) \div nx), x |-> xlo + ((i - 1) % nx)]]

\* ny = y + ky - 1 and nx = x + kx - 1.
NeighbourNoOffset(p, k) == p + k

Neighbour(p, k) == p + k - 1

\* The array the neighbourhood is read from: image[ny, nx, c].
SourceIsOutput(hp, out) == hp[out]

Source(hp, out) == hp["in"]

\* sum_val after the ky, kx loops from tap i on (tap i is ky = i \div 3,
\* kx = i % 3), as a numerator over K.den.
RECURSIVE ConvSum(_, _, _, _, _, _)
ConvSum(src, K, y, x, c, i) ==
  IF i > 8 THEN 0
  ELSE LET ky == i \div 3
           kx == i % 3
       IN  src.px[<<Neighbour(y, ky), Neighbour(x, kx), c>>] * K.w[ky + 1][kx + 1]
             + ConvSum(src, K, y, x, c, i + 1)

\* The indices image[ny, nx, c] the ky, kx loops read at (y, x).
ConvReads(a, y, x) ==
  {<<Neighbour(y, ky), Neighbour(x, kx), c>> : ky \in 0..2, kx \in 0..2, c \in 0..(a.ch - 1)}

\* gaussian_blur: output[y, x, c] = <DTYPE_t>sum_val.
BlurValue(src, y, x, c) == Cast(ConvSum(src, GaussKernel, y, x, c, 0), GaussKernel.den)

\* sharpen_filter: if sum_val < 0: 0, elif sum_val > 255: 255.
SharpenClampNone(s) == s

SharpenClamp(s) == IF s < 0 THEN 0 ELSE IF s > MaxByte THEN MaxByte ELSE s

SharpenValue(src, y, x, c) ==
  Cast(SharpenClamp(ConvSum(src, SharpenKernel, y, x, c, 0)), SharpenKernel.den)

\* edge_detection: magnitude = sqrt(gx*gx + gy*gy) is given by its square n;
\* if magnitude > 255: magnitude = 255; then <DTYPE_t>magnitude.
EdgeClampNone(n) == ISqrt(n)

EdgeClamp(n) == IF n > MaxByte * MaxByte THEN MaxByte ELSE ISqrt(n)

EdgeValue(src, y, x, c) ==
  LET gx == ConvSum(src, SobelX, y, x, c, 0)
      gy == ConvSum(src, SobelY, y, x, c, 0)
  IN  Cast(EdgeClamp(gx * gx + gy * gy), 1)

\* adjust_brightness: new_val = image[y, x, c] * factor as a numerator over
\* f.den; if new_val > 255: 255, elif new_val < 0: 0.
BrightClampLowOnly(num, den) == IF num < 0 THEN 0 ELSE num

BrightClamp(num, den) ==
  IF num > MaxByte * den THEN MaxByte * den ELSE IF num < 0 THEN 0 ELSE num

BrightValue(src, f, y, x, c) == Cast(BrightClamp(src.px[<<y, x, c>>] * f.num, f.den), f.den)

\* --------------------------------------------------------- border copies
\* output[0,:,:], output[height-1,:,:], output[:,0,:], output[:,width-1,:]
\* = the same of image, in this order.
BorderCopiesNoLastColumn(h, w) ==
  << [kind |-> "row", y |-> 0, x |-> 0], [kind |-> "row", y |-> h - 1, x |-> 0],
     [kind |-> "col", y |-> 0, x |-> 0] >>

BorderCopies(h, w) ==
  << [kind |-> "row", y |-> 0, x |-> 0], [kind |-> "row", y |-> h - 1, x |-> 0],
     [kind |-> "col", y |-> 0, x |-> 0], [kind |-> "col", y |-> 0, x |-> w - 1] >>

\* numpy's integer index i on an axis of size n: IndexError unless
\* -n <= i < n; a negative index counts from the end.
IndexOK(i, n) == -n <= i /\ i < n

Normal(i, n) == IF i < 0 THEN i + n ELSE i

\* ------------------------------------------------------------ the programs
\* What a call executes after allocating its output, in source order.
BlurProgram(h, w) == LoopNest(1, h - 1, 1, w - 1) \o BorderCopies(h, w)

SharpenProgram(h, w) == LoopNest(1, h - 1, 1, w - 1) \o BorderCopies(h, w)

EdgeProgramWithBorders(h, w) == LoopNest(1, h - 1, 1, w - 1) \o BorderCopies(h, w)

EdgeProgram(h, w) == LoopNest(1, h - 1, 1, w - 1)

BrightnessProgram(h, w) == LoopNest(0, h, 0, w)

Program(o, a) ==
  CASE o = "blur" -> BlurProgram(a.h, a.w)
    [] o = "sharpen" -> SharpenProgram(a.h, a.w)
    [] o = "edge" -> EdgeProgram(a.h, a.w)
    [] o = "brightness" -> BrightnessProgram(a.h, a.w)

\* The value the body of the c loop stores in output[y, x, c].
PixelValue(o, f, src, y, x, c) ==
  CASE o = "blur" -> BlurValue(src, y, x, c)
    [] o = "sharpen" -> SharpenValue(src, y, x, c)
    [] o = "edge" -> EdgeValue(src, y, x, c)
    [] o = "brightness" -> BrightValue(src, f, y, x, c)

\* One task of a program on the heap hp with output buffer out: the new heap,
\* the unchecked buffer indices it read and wrote, and how it ended: "ok",
\* "raised" (numpy's IndexError) or "ub" (an index outside the buffer, which
\* boundscheck=False and wraparound=False leave unchecked: anything follows).
ExecTask(hp, out, o, f, t) ==
  LET img == hp["in"]
      dst == hp[out]
  IN  IF t.kind = "pixel"
      THEN LET src == Source(hp, out)
               rd == IF o \in ConvOps THEN ConvReads(src, t.y, t.x)
                     ELSE {<<t.y, t.x, c>> : c \in 0..(src.ch - 1)}
               wr == {<<t.y, t.x, c>> : c \in 0..(img.ch - 1)}
           IN  IF (\A i \in rd : InBounds(src, i)) /\ (\A i \in wr : InBounds(dst, i))
               THEN [heap |-> [hp EXCEPT ![out] =
                                 [@ EXCEPT !.px =
                                    [i \in DOMAIN @ |->
                                       IF i \in wr
                                       THEN PixelValue(o, f, src, i[1], i[2], i[3])
                                       ELSE @[i]]]],
                     status |-> "ok", reads |-> rd, writes |-> wr]
               ELSE [heap |-> hp, status |-> "ub", reads |-> rd, writes |-> wr]
      ELSE LET n == IF t.kind = "row" THEN img.h ELSE img.w
               k == IF t.kind = "row" THEN t.y ELSE t.x
               axis == IF t.kind = "row" THEN 1 ELSE 2
           IN  IF IndexOK(k, n)
               THEN [heap |-> [hp EXCEPT ![out] =
                                 [@ EXCEPT !.px =
                                    [i \in DOMAIN @ |->
                                       IF i[axis] = Normal(k, n) THEN img.px[i] ELSE @[i]]]],
                     status |-> "ok", reads |-> {}, writes |-> {}]
               ELSE [heap |-> hp, status |-> "raised", reads |-> {}, writes |-> {}]

\* A whole program in the order given: the heap it leaves and how it ended.
RECURSIVE RunProgram(_, _, _, _, _)
RunProgram(hp, out, o, f, tasks) ==
  IF tasks = <<>> THEN [heap |-> hp, status |-> "ok"]
  ELSE LET r == ExecTask(hp, out, o, f, Head(tasks))
       IN  IF r.status = "ok" THEN RunProgram(r.heap, out, o, f, Tail(tasks))
           ELSE [heap |-> r.heap, status |-> r.status]

\* ------------------------------------------------------------------ state
VARIABLES
  heap,       \* the buffers: "in" is the caller's image, "out" the allocated output
  image0,     \* the image as the caller passed it
  outputRef,  \* the buffer the name output is bound to ("none" before the call)
  op,         \* the transform called: "blur", "sharpen", "edge", "brightness"
  factor,     \* the factor of adjust_brightness
  pending,    \* the tasks of the program not yet executed
  pc,         \* "idle", "running", "done" (returned), "raised", "ub"
  reads,      \* the buffer indices the last task read
  writes,     \* the buffer indices the last task wrote
  iters,      \* the number of (y, x) loop bodies executed
  inOrder     \* whether every task so far was executed in source order

vars == <<heap, image0, outputRef, op, factor, pending, pc, reads, writes, iters, inOrder>>

InitWith(imgs) ==
  /\ \E a \in imgs : heap = ("in" :> a) /\ image0 = a
  /\ outputRef = "none"
  /\ op = "none"
  /\ factor = NoFactor
  /\ pending = <<>>
  /\ pc = "idle"
  /\ reads = {}
  /\ writes = {}
  /\ iters = 0
  /\ inOrder = TRUE

Init == InitWith(Images)

\* Entering a transform: the output is allocated and its program is set up.
Call(o, f) ==
  /\ pc = "idle"
  /\ LET al == Allocate(heap)
     IN  /\ heap' = al.heap
         /\ outputRef' = al.ref
  /\ op' = o
  /\ factor' = f
  /\ pending' = Program(o, heap["in"])
  /\ pc' = "running"
  /\ UNCHANGED <<image0, reads, writes, iters, inOrder>>

gaussian_blur == Call("blur", NoFactor)

sharpen_filter == Call("sharpen", NoFactor)

edge_detection == Call("edge", NoFactor)

adjust_brightness(f) == Call("brightness", f)

\* Task number i of pending is executed.
Exec(i) ==
  /\ pc = "running"
  /\ i \in 1..Len(pending)
  /\ \E r \in {ExecTask(heap, outputRef, op, factor, pending[i])} :
       /\ heap' = r.heap
       /\ reads' = r.reads
       /\ writes' = r.writes
       /\ pc' = IF r.status = "ok" THEN "running" ELSE r.status
  /\ iters' = IF pending[i].kind = "pixel" THEN iters + 1 ELSE iters
  /\ inOrder' = (inOrder /\ i = 1)
  /\ pending' = [j \in 1..(Len(pending) - 1) |-> IF j < i THEN pending[j] ELSE pending[j + 1]]
  /\ UNCHANGED <<image0, outputRef, op, factor>>

\* The next statement in source order.
Step == Exec(1)

\* return output
Return ==
  /\ pc = "running"
  /\ pending = <<>>
  /\ pc' = "done"
  /\ UNCHANGED <<heap, image0, outputRef, op, factor, pending, reads, writes, iters, inOrder>>

Next ==
  \/ gaussian_blur
  \/ sharpen_filter
  \/ edge_detection
  \/ \E f \in Factors : adjust_brightness(f)
  \/ Step
  \/ Return

Spec == Init /\ [][Next]_vars

\* The same programs with their tasks executed in any order, by any number of
\* workers; a program of more than MaxParTasks tasks is not explored.
ParCall ==
  \E o \in ConvOps \cup {"brightness"}, f \in ParFactors \cup {NoFactor} :
    /\ f = NoFactor <=> o \in ConvOps
    /\ Len(Program(o, heap["in"])) <= MaxParTasks
    /\ Call(o, f)

ParStep == \E i \in 1..Len(pending) : Exec(i)

NextPar == ParCall \/ ParStep \/ Return

InitPar == InitWith(ParImages)

SpecPar == InitPar /\ [][NextPar]_vars

\* ================================================================ claims
\* The input as passed, the output of the call, and the pixel frame.
In(y, x, c) == image0.px[<<y, x, c>>]

Out == heap[outputRef]

AllIndices == Indices(image0.h, image0.w, image0.ch)

OnBorder(i) ==
  i[1] = 0 \/ i[1] = image0.h - 1 \/ i[2] = 0 \/ i[2] = image0.w - 1

InteriorIndices == {i \in AllIndices : ~OnBorder(i)}

Degenerate == image0.h < 3 \/ image0.w < 3

\* C1: when gaussian_blur or sharpen_filter has returned, every element of the
\* first and last row and of the first and last column of the output equals
\* the element of the input at the same place.
C1_BorderCopyLaw ==
  (pc = "done" /\ op \in {"blur", "sharpen"}) =>
    \A i \in AllIndices : OnBorder(i) => Out.px[i] = image0.px[i]

C1_Witness ==
  /\ pc = "done"
  /\ op = "blur"
  /\ ~Degenerate
  /\ \E i \in InteriorIndices : Out.px[i] # image0.px[i]
  /\ \E i \in AllIndices : i[2] = image0.w - 1 /\ image0.px[i] # 0

\* C2: at every point of edge_detection, every border element of the output
\* is 0 and the elements written are interior ones only.
C2_BorderZeroLaw ==
  op = "edge" =>
    /\ \A i \in AllIndices : OnBorder(i) => Out.px[i] = 0
    /\ writes \subseteq InteriorIndices

C2_Witness ==
  /\ pc = "done"
  /\ op = "edge"
  /\ \E i \in AllIndices : OnBorder(i) /\ image0.px[i] # 0
  /\ \E i \in InteriorIndices : Out.px[i] # 0

\* C3: on an image of height or width below 3 a convolution transform ends
\* by returning, not by raising, having executed no loop body, and its output
\* is a copy of the input (blur, sharpen) or all zeros (edge).
C3_DegenerateIsNoError ==
  (op \in ConvOps /\ Degenerate /\ pc \in {"done", "raised"}) =>
    /\ pc = "done"
    /\ iters = 0
    /\ Out.px = IF op = "edge" THEN ZerosLike(image0).px ELSE image0.px

\* C4: when sharpen_filter has returned, every interior element is
\* s = 5 * centre - up - down - left - right clamped to 0..255.
SharpenSum(i) ==
  5 * In(i[1], i[2], i[3]) - In(i[1] - 1, i[2], i[3]) - In(i[1] + 1, i[2], i[3])
    - In(i[1], i[2] - 1, i[3]) - In(i[1], i[2] + 1, i[3])

C4_SharpenClampsBeforeCast ==
  (pc = "done" /\ op = "sharpen") =>
    \A i \in InteriorIndices :
      Out.px[i] = IF SharpenSum(i) < 0 THEN 0
                  ELSE IF SharpenSum(i) > 255 THEN 255 ELSE SharpenSum(i)

C4_Witness ==
  /\ pc = "done"
  /\ op = "sharpen"
  /\ \E i \in InteriorIndices : SharpenSum(i) < 0 /\ Out.px[i] = 0
  /\ \E i \in InteriorIndices : SharpenSum(i) > 255 /\ Out.px[i] = 255
  /\ \E i \in InteriorIndices :
       SharpenSum(i) \in 1..254 /\ SharpenSum(i) # image0.px[i]

\* C5: when gaussian_blur has returned, every interior element is
\* floor(W / 16), W the neighbourhood weighted 1,2,1 / 2,4,2 / 1,2,1, and
\* floor(W / 16) is within 0..255.
BlurWeighted(i) ==
  In(i[1] - 1, i[2] - 1, i[3]) + 2 * In(i[1] - 1, i[2], i[3]) + In(i[1] - 1, i[2] + 1, i[3])
    + 2 * In(i[1], i[2] - 1, i[3]) + 4 * In(i[1], i[2], i[3]) + 2 * In(i[1], i[2] + 1, i[3])
    + In(i[1] + 1, i[2] - 1, i[3]) + 2 * In(i[1] + 1, i[2], i[3]) + In(i[1] + 1, i[2] + 1, i[3])

C5_BlurTruncatesInRange ==
  (pc = "done" /\ op = "blur") =>
    \A i \in InteriorIndices :
      /\ Out.px[i] = BlurWeighted(i) \div 16
      /\ BlurWeighted(i) \div 16 \in 0..255

C5_Witness ==
  /\ pc = "done"
  /\ op = "blur"
  /\ \E i \in InteriorIndices : BlurWeighted(i) % 16 >= 8
  /\ \E i \in InteriorIndices : BlurWeighted(i) = 16 * 255 /\ Out.px[i] = 255

\* C6: when edge_detection has returned, every interior element is
\* min(255, floor(sqrt(gx*gx + gy*gy))) for the Sobel sums gx and gy.
SobelGx(i) ==
  (In(i[1] - 1, i[2] + 1, i[3]) + 2 * In(i[1], i[2] + 1, i[3]) + In(i[1] + 1, i[2] + 1, i[3]))
    - (In(i[1] - 1, i[2] - 1, i[3]) + 2 * In(i[1], i[2] - 1, i[3]) + In(i[1] + 1, i[2] - 1, i[3]))

SobelGy(i) ==
  (In(i[1] + 1, i[2] - 1, i[3]) + 2 * In(i[1] + 1, i[2], i[3]) + In(i[1] + 1, i[2] + 1, i[3]))
    - (In(i[1] - 1, i[2] - 1, i[3]) + 2 * In(i[1] - 1, i[2], i[3]) + In(i[1] - 1, i[2] + 1, i[3]))

SquaredMagnitude(i) == SobelGx(i) * SobelGx(i) + SobelGy(i) * SobelGy(i)

C6_EdgeMagnitude ==
  (pc = "done" /\ op = "edge") =>
    \A i \in InteriorIndices :
      LET n == SquaredMagnitude(i)
          v == Out.px[i]
      IN  IF n >= 255 * 255 THEN v = 255
          ELSE v * v <= n /\ n < (v + 1) * (v + 1)

C6_Witness ==
  /\ pc = "done"
  /\ op = "edge"
  /\ \E i \in InteriorIndices : SquaredMagnitude(i) > 255 * 255 /\ Out.px[i] = 255
  /\ \E i \in InteriorIndices :
       /\ SquaredMagnitude(i) < 255 * 255
       /\ Out.px[i] > 0
       /\ Out.px[i] * Out.px[i] # SquaredMagnitude(i)

\* C7: when adjust_brightness has returned, every element, border included,
\* is input * factor clamped to 0..255 and truncated; a negative factor gives
\* 0 everywhere, factor 1 gives the input back, and the 1x1 image of 200
\* under factor 2 gives 255.
Scaled(i) ==
  LET p == image0.px[i] * factor.num
  IN  IF p >= 255 * factor.den THEN 255 ELSE IF p <= 0 THEN 0 ELSE p \div factor.den

C7_BrightnessFullFrame ==
  (pc = "done" /\ op = "brightness") =>
    /\ \A i \in AllIndices : Out.px[i] = Scaled(i)
    /\ factor.num < 0 => \A i \in AllIndices : Out.px[i] = 0
    /\ factor.num = factor.den => Out.px = image0.px
    /\ (image0.h = 1 /\ image0.w = 1 /\ factor.num = 2 * factor.den
          /\ \A i \in AllIndices : image0.px[i] = 200)
         => \A i \in AllIndices : Out.px[i] = 255

C7_Witness ==
  /\ pc = "done"
  /\ op = "brightness"
  /\ image0.h = 1 /\ image0.w = 1
  /\ factor.num = 2 * factor.den
  /\ \A i \in AllIndices : image0.px[i] = 200 /\ Out.px[i] = 255

\* C8: at every point the caller's image is as it was passed, and the output
\* of a call is a buffer other than the image, of the image's shape.
C8_InputNeverMutated ==
  /\ heap["in"] = image0
  /\ outputRef # "none" => (outputRef # "in" /\ SameShape(Out, image0))

C8_Witness ==
  /\ pc = "done"
  /\ op = "sharpen"
  /\ heap["in"] = image0
  /\ Out.px # image0.px

\* C9: a program whose tasks were executed in any order ends as the program
\* executed in source order does: with the same output, or raising as it does.
SourceOrderRun ==
  LET al == Allocate("in" :> image0)
  IN  RunProgram(al.heap, al.ref, op, factor, Program(op, image0))

C9_OrderIndependent ==
  /\ pc = "done" =>
       (SourceOrderRun.status = "ok" /\ Out = SourceOrderRun.heap[outputRef])
  /\ pc = "raised" => SourceOrderRun.status = "raised"

C9_Witness ==
  /\ pc = "done"
  /\ ~inOrder
  /\ op = "blur"
  /\ Cardinality(InteriorIndices) >= 2 * image0.ch
  /\ \E i \in InteriorIndices : Out.px[i] # image0.px[i]

\* C10: every unchecked index a convolution loop uses, to read image or to
\* write output, is within the array.
C10_IndexSafety ==
  op \in ConvOps =>
    /\ pc # "ub"
    /\ \A i \in reads \cup writes :
         /\ 0 <= i[1] /\ i[1] < image0.h
         /\ 0 <= i[2] /\ i[2] < image0.w

C10_Witness ==
  /\ op \in ConvOps
  /\ \E i \in reads : i[1] = 0 /\ i[2] = 0
  /\ \E i \in reads : i[1] = image0.h - 1 /\ i[2] = image0.w - 1
  /\ writes # {}
====
